---- MODULE Spec2Model ----
(***************************************************************************)
(* Credit approval system: the decision engine of app/views.py             *)
(* (calculate_emi, credit_score, CheckEligibility.post, CreateLoan.post),  *)
(* the Customer/Loan tables of app/models.py and the loan import task of   *)
(* app/tasks.py.                                                           *)
(*                                                                         *)
(* Python floats are modelled as exact rationals <<num, den>> (den > 0,    *)
(* lowest terms).  Request amounts, incomes and imported rows are drawn    *)
(* from small sets of integer-valued amounts.                              *)
(***************************************************************************)
EXTENDS Integers, Sequences, FiniteSets, TLC

VARIABLES
    customers,  \* the Customer table: customer_id -> row
    loans,      \* the Loan table: loan_id -> row
    today,      \* date.today()
    resp,       \* the reply to the last request
    budget,     \* requests the run may still serve
    procs       \* the create-loan requests in flight (interleaved runs only)

vars == <<customers, loans, today, resp, budget, procs>>

----------------------------------------------------------------------------
(* Bounds of the model *)

MaxCustomers == 2
MaxRequests == 1
MaxHistory == 4
MaxScoreHistory == 6
MaxProcs == 2
MaxSeqRequests == 2

\* monthly_income values used at registration
Incomes == {1000, 2000}
\* monthly_income values of the scored profiles
ScoreIncomes == {1000, 1200, 2000, 3000}
\* scores and rates fed to the rate ladder
Scores == 0..100
LadderRates == {0, 8, 12, 14, 16, 20}
\* requested loan_amount values
Principals == {300, 1000}
\* requested interest_rate values (percent per year)
Rates == {0, 12, 16}
\* requested tenure values: the positive ones, zero and a negative one
ValidTenures == {1, 2}
Tenures == {-1, 0} \cup ValidTenures
\* values of date.today()
Dates == {<<2024, 1, 31>>, <<2024, 12, 15>>}

----------------------------------------------------------------------------
(* Float arithmetic, as exact rationals *)

Abs(x) == IF x < 0 THEN -x ELSE x

RECURSIVE GCD(_, _)
GCD(a, b) == IF b = 0 THEN a ELSE GCD(b, a % b)

\* the rational n/d (d # 0) in lowest terms with a positive denominator
Rat(n, d) ==
    LET g == GCD(Abs(n), Abs(d))
        s == IF d < 0 THEN -1 ELSE 1
    IN  <<s * (n \div g), s * (d \div g)>>

RInt(n) == <<n, 1>>

RAdd(a, b) ==
    LET g == GCD(a[2], b[2])
    IN  Rat(a[1] * (b[2] \div g) + b[1] * (a[2] \div g), (a[2] \div g) * b[2])

RNeg(a) == <<-a[1], a[2]>>

RSub(a, b) == RAdd(a, RNeg(b))

RMul(a, b) ==
    LET g1 == GCD(Abs(a[1]), b[2])
        g2 == GCD(Abs(b[1]), a[2])
    IN  IF a[1] = 0 \/ b[1] = 0 THEN <<0, 1>>
        ELSE <<(a[1] \div g1) * (b[1] \div g2), (a[2] \div g2) * (b[2] \div g1)>>

\* a / b for b # 0
RDiv(a, b) ==
    RMul(a, IF b[1] < 0 THEN <<-b[2], -b[1]>> ELSE <<b[2], b[1]>>)

RLt(a, b) == a[1] * b[2] < b[1] * a[2]

RLe(a, b) == a[1] * b[2] <= b[1] * a[2]

RGt(a, b) == RLt(b, a)

RMax(a, b) == IF RLt(a, b) THEN b ELSE a

RMin(a, b) == IF RLt(b, a) THEN b ELSE a

\* a ** n for an integer n (Python's float ** int; a # 0 when n < 0)
RECURSIVE RPow(_, _)
RPow(a, n) ==
    IF n = 0 THEN <<1, 1>>
    ELSE IF n < 0 THEN RDiv(<<1, 1>>, RPow(a, -n))
    ELSE RMul(a, RPow(a, n - 1))

\* int(x): truncation toward zero
RTrunc(a) ==
    IF a[1] >= 0 THEN a[1] \div a[2] ELSE -((-a[1]) \div a[2])

\* the integer nearest to n/d (n >= 0, d > 0), ties to the even one
RoundHalfEvenNat(n, d) ==
    LET q == n \div d
        r == n % d
    IN  IF 2 * r < d THEN q
        ELSE IF 2 * r > d THEN q + 1
        ELSE IF q % 2 = 0 THEN q ELSE q + 1

\* round(x, 2)
Round2(a) ==
    LET c == RMul(a, <<100, 1>>)
        m == RoundHalfEvenNat(Abs(c[1]), c[2])
    IN  Rat(IF c[1] < 0 THEN -m ELSE m, 100)

\* round(x, -5) for an integer x >= 0
RoundToLakh(x) == RoundHalfEvenNat(x, 100000) * 100000

----------------------------------------------------------------------------
(* Dates: <<year, month, day>> *)

IsLeap(y) == (y % 4 = 0 /\ y % 100 # 0) \/ y % 400 = 0

DaysInMonth(y, m) ==
    IF m = 2 THEN (IF IsLeap(y) THEN 29 ELSE 28)
    ELSE IF m \in {4, 6, 9, 11} THEN 30 ELSE 31

\* d + relativedelta(months = n): the month moves, the day is clipped
AddMonths(d, n) ==
    LET t == (d[1] * 12 + (d[2] - 1)) + n
        y == t \div 12
        m == (t % 12) + 1
        dim == DaysInMonth(y, m)
    IN  <<y, m, IF d[3] > dim THEN dim ELSE d[3]>>

----------------------------------------------------------------------------
(* calculate_emi *)

ZeroDivisionError == [err |-> TRUE, val |-> <<0, 1>>]

Value(v) == [err |-> FALSE, val |-> v]

\* principal: integer amount, annual_rate: rational, tenure_months: integer
calculate_emi(principal, annual_rate, tenure_months) ==
    IF annual_rate = <<0, 1>>
    THEN IF tenure_months = 0 THEN ZeroDivisionError
         ELSE Value(Rat(principal, tenure_months))
    ELSE LET r == RDiv(RDiv(annual_rate, <<100, 1>>), <<12, 1>>)
             n == tenure_months
             x == RPow(RAdd(<<1, 1>>, r), n)
             den == RSub(x, <<1, 1>>)
         IN  IF den[1] = 0 THEN ZeroDivisionError
             ELSE Value(RDiv(RMul(RMul(RInt(principal), r), x), den))

----------------------------------------------------------------------------
(* The tables *)

\* Customer.save: approved_limit = round(monthly_income * 36, -5)
NewCustomer(monthly_income) ==
    [monthly_income |-> monthly_income,
     approved_limit |-> RoundToLakh(monthly_income * 36)]

\* customer.loans.all(): the rows of the Loan table of customer c, one query
LoansOf(c) == SelectSeq(loans, LAMBDA l : l.customer = c)

RECURSIVE SumField(_, _)
\* sum([loan.<field> for loan in ls]) of an integer field
SumField(ls, field) ==
    IF ls = <<>> THEN 0 ELSE Head(ls)[field] + SumField(Tail(ls), field)

RECURSIVE current_emis_of(_)
\* sum([loan.monthly_payment for loan in ls])
current_emis_of(ls) ==
    IF ls = <<>> THEN <<0, 1>>
    ELSE RAdd(Head(ls).monthly_payment, current_emis_of(Tail(ls)))

----------------------------------------------------------------------------
(* credit_score *)

payment_score(on_time_emis, total_emis) ==
    LET payment_ratio == IF total_emis > 0 THEN Rat(on_time_emis, total_emis)
                         ELSE <<1, 1>>
    IN  RMul(payment_ratio, <<50, 1>>)

\* variant: a linear penalty per loan instead of the three tiers
loan_count_score_penalty(total_loans) == 30 - 10 * total_loans

loan_count_score(total_loans) ==
    IF total_loans <= 3 THEN 30
    ELSE IF total_loans <= 5 THEN 20
    ELSE 10

\* variant: the lowest volume tier scores 0 (the "0-20 points" of the comment)
volume_score_from_zero(total_loan_amount, approved_limit) ==
    IF RLe(RInt(total_loan_amount), Rat(approved_limit, 2)) THEN 20
    ELSE IF total_loan_amount <= approved_limit THEN 10
    ELSE 0

volume_score(total_loan_amount, approved_limit) ==
    IF RLe(RInt(total_loan_amount), Rat(approved_limit, 2)) THEN 20
    ELSE IF total_loan_amount <= approved_limit THEN 10
    ELSE 5

\* exceeds(current_emis, monthly_income): current_emis > monthly_income * 0.5
ExceedsHalfIncome(emis, monthly_income) == RGt(emis, Rat(monthly_income, 2))

\* variant: the zero-instalment fallback is tested before the burden
credit_score_on_fallback_first(customer, ls) ==
    IF ls = <<>> THEN 100
    ELSE IF SumField(ls, "tenure") = 0 THEN 100
    ELSE IF ExceedsHalfIncome(current_emis_of(ls), customer.monthly_income)
    THEN 0
    ELSE RTrunc(RMin(RAdd(payment_score(SumField(ls, "emis_paid_on_time"),
                                        SumField(ls, "tenure")),
                          RInt(loan_count_score(Len(ls))
                               + volume_score(SumField(ls, "loan_amount"),
                                              customer.approved_limit))),
                     <<100, 1>>))

\* the score of a customer record over the rows ls read by customer.loans.all()
credit_score_on(customer, ls) ==
    IF ls = <<>> THEN 100
    ELSE LET total_loans == Len(ls)
             current_emis == current_emis_of(ls)
             total_emis == SumField(ls, "tenure")
             on_time_emis == SumField(ls, "emis_paid_on_time")
             total_loan_amount == SumField(ls, "loan_amount")
             final_score ==
                 RMin(RAdd(payment_score(on_time_emis, total_emis),
                           RInt(loan_count_score(total_loans)
                                + volume_score(total_loan_amount,
                                               customer.approved_limit))),
                      <<100, 1>>)
         IN  IF ExceedsHalfIncome(current_emis, customer.monthly_income) THEN 0
             ELSE IF total_emis = 0 THEN 100
             ELSE RTrunc(final_score)

credit_score(c) == credit_score_on(customers[c], LoansOf(c))

----------------------------------------------------------------------------
(* Responses: the handler's reply together with its final local variables *)

BlankResp ==
    [op |-> "none", status |-> 0, customer_id |-> 0, loan_amount |-> 0,
     interest_rate |-> <<0, 1>>, tenure |-> 0, score |-> -1,
     approval |-> FALSE, corrected_interest_rate |-> <<0, 1>>,
     monthly_installment |-> <<0, 1>>, message |-> "", loan_id |-> 0]

NotFound(op, customer_id) ==
    [BlankResp EXCEPT !.op = op, !.status = 404, !.customer_id = customer_id,
                      !.message = "Customer not found"]

Request(op, customer_id, loan_amount, interest_rate, tenure) ==
    [BlankResp EXCEPT !.op = op, !.customer_id = customer_id,
                      !.loan_amount = loan_amount,
                      !.interest_rate = RInt(interest_rate),
                      !.tenure = tenure]

CustomerExists(customer_id) == customer_id \in 1..Len(customers)

----------------------------------------------------------------------------
(* CheckEligibility.post *)

\* variant: the 12% band opens above 30 instead of at 30
CheckCorrectRate_open30(score, interest_rate) ==
    IF score > 50
    THEN [approval |-> TRUE, corrected_interest_rate |-> interest_rate]
    ELSE IF 30 < score /\ score <= 50
    THEN [approval |-> TRUE,
          corrected_interest_rate |-> RMax(interest_rate, <<12, 1>>)]
    ELSE IF 10 <= score /\ score <= 30
    THEN [approval |-> TRUE,
          corrected_interest_rate |-> RMax(interest_rate, <<16, 1>>)]
    ELSE [approval |-> FALSE, corrected_interest_rate |-> interest_rate]

\* the rate ladder of CheckEligibility.post
CheckCorrectRate(score, interest_rate) ==
    IF score > 50
    THEN [approval |-> TRUE, corrected_interest_rate |-> interest_rate]
    ELSE IF 30 <= score /\ score <= 50
    THEN [approval |-> TRUE,
          corrected_interest_rate |-> RMax(interest_rate, <<12, 1>>)]
    ELSE IF 10 <= score /\ score < 30
    THEN [approval |-> TRUE,
          corrected_interest_rate |-> RMax(interest_rate, <<16, 1>>)]
    ELSE [approval |-> FALSE, corrected_interest_rate |-> interest_rate]

\* variant: the gate looks at the new EMI alone
CheckOverBurden_new_only(c, monthly_installment) ==
    ExceedsHalfIncome(monthly_installment, customers[c].monthly_income)

\* the affordability gate of CheckEligibility.post:
\* current EMIs + new EMI > 50% of the monthly income
CheckOverBurden(c, monthly_installment) ==
    LET current_emis == current_emis_of(LoansOf(c))
        total_emis == RAdd(current_emis, monthly_installment)
    IN  ExceedsHalfIncome(total_emis, customers[c].monthly_income)

CheckEligibilityPost(customer_id, loan_amount, interest_rate, tenure) ==
    LET req == Request("check", customer_id, loan_amount, interest_rate, tenure)
    IN  IF ~CustomerExists(customer_id)
        THEN NotFound("check", customer_id)
        ELSE
        LET score == credit_score(customer_id)
            tier == CheckCorrectRate(score, req.interest_rate)
            emi == IF tier.approval
                   THEN calculate_emi(loan_amount, tier.corrected_interest_rate,
                                      tenure)
                   ELSE Value(<<0, 1>>)
        IN  IF emi.err
            THEN [req EXCEPT !.status = 500, !.score = score,
                             !.message = "ZeroDivisionError"]
            ELSE
            LET approval == tier.approval /\ ~CheckOverBurden(customer_id, emi.val)
                monthly_installment == IF approval THEN emi.val ELSE <<0, 1>>
            IN  [req EXCEPT !.status = 200, !.score = score,
                            !.approval = approval,
                            !.corrected_interest_rate =
                                tier.corrected_interest_rate,
                            !.monthly_installment = Round2(monthly_installment)]

----------------------------------------------------------------------------
(* CreateLoan.post *)

\* variant: the middle band of the copy in CreateLoan.post uses the 16% floor
CreateCorrectRate_floor16(score, interest_rate) ==
    IF score > 50
    THEN [approval |-> TRUE, corrected_interest_rate |-> interest_rate,
          message |-> "Loan approved"]
    ELSE IF 10 <= score /\ score <= 50
    THEN [approval |-> TRUE,
          corrected_interest_rate |-> RMax(interest_rate, <<16, 1>>),
          message |-> "Loan approved"]
    ELSE [approval |-> FALSE, corrected_interest_rate |-> interest_rate,
          message |-> "Loan rejected due to low credit score"]

\* the rate ladder of CreateLoan.post
CreateCorrectRate(score, interest_rate) ==
    IF score > 50
    THEN [approval |-> TRUE, corrected_interest_rate |-> interest_rate,
          message |-> "Loan approved"]
    ELSE IF 30 <= score /\ score <= 50
    THEN [approval |-> TRUE,
          corrected_interest_rate |-> RMax(interest_rate, <<12, 1>>),
          message |-> "Loan approved"]
    ELSE IF 10 <= score /\ score < 30
    THEN [approval |-> TRUE,
          corrected_interest_rate |-> RMax(interest_rate, <<16, 1>>),
          message |-> "Loan approved"]
    ELSE [approval |-> FALSE, corrected_interest_rate |-> interest_rate,
          message |-> "Loan rejected due to low credit score"]

\* variant: the threshold looks at the new EMI alone
CreateOverBurden_new_only(customer, ls, monthly_installment) ==
    ExceedsHalfIncome(monthly_installment, customer.monthly_income)

\* the EMI threshold of CreateLoan.post over the rows ls read at that point
CreateOverBurden(customer, ls, monthly_installment) ==
    LET current_emis == current_emis_of(ls)
        total_emis == RAdd(current_emis, monthly_installment)
    IN  ExceedsHalfIncome(total_emis, customer.monthly_income)

\* variant: the stored payment is the rounded one of the reply
NewLoan_rounded(customer_id, loan_amount, tenure, rate, monthly_installment, start_date) ==
    [customer |-> customer_id, loan_amount |-> loan_amount, tenure |-> tenure,
     interest_rate |-> rate,
     monthly_payment |-> Round2(monthly_installment), emis_paid_on_time |-> 0,
     start_date |-> start_date, end_date |-> AddMonths(start_date, tenure)]

\* Loan.objects.create(...)
NewLoan(customer_id, loan_amount, tenure, rate, monthly_installment, start_date) ==
    [customer |-> customer_id, loan_amount |-> loan_amount, tenure |-> tenure,
     interest_rate |-> rate,
     monthly_payment |-> monthly_installment, emis_paid_on_time |-> 0,
     start_date |-> start_date, end_date |-> AddMonths(start_date, tenure)]

\* the reply of CreateLoan.post and the row it inserts (created = FALSE: none)
CreateLoanPost(customer_id, loan_amount, interest_rate, tenure) ==
    LET req == Request("create", customer_id, loan_amount, interest_rate, tenure)
        none == NewLoan(0, 0, 0, <<0, 1>>, <<0, 1>>, today)
    IN  IF ~CustomerExists(customer_id)
        THEN [created |-> FALSE, loan |-> none,
              resp |-> NotFound("create", customer_id)]
        ELSE
        LET score == credit_score(customer_id)
            tier == CreateCorrectRate(score, req.interest_rate)
            emi == IF tier.approval
                   THEN calculate_emi(loan_amount, tier.corrected_interest_rate,
                                      tenure)
                   ELSE Value(<<0, 1>>)
        IN  IF emi.err
            THEN [created |-> FALSE, loan |-> none,
                  resp |-> [req EXCEPT !.status = 500, !.score = score,
                                       !.message = "ZeroDivisionError"]]
            ELSE IF ~tier.approval
            THEN [created |-> FALSE, loan |-> none,
                  resp |-> [req EXCEPT !.status = 200, !.score = score,
                                !.corrected_interest_rate =
                                    tier.corrected_interest_rate,
                                !.message = tier.message]]
            ELSE IF CreateOverBurden(customers[customer_id],
                                     LoansOf(customer_id), emi.val)
            THEN [created |-> FALSE, loan |-> none,
                  resp |-> [req EXCEPT !.status = 200, !.score = score,
                                !.corrected_interest_rate =
                                    tier.corrected_interest_rate,
                                !.message =
                           "Loan rejected: EMIs exceed 50% of monthly income"]]
            ELSE [created |-> TRUE,
                  loan |-> NewLoan(customer_id, loan_amount, tenure,
                                   tier.corrected_interest_rate, emi.val, today),
                  resp |-> [req EXCEPT !.status = 201, !.score = score,
                                !.approval = TRUE,
                                !.corrected_interest_rate =
                                    tier.corrected_interest_rate,
                                !.monthly_installment = Round2(emi.val),
                                !.message = tier.message,
                                !.loan_id = Len(loans) + 1]]

----------------------------------------------------------------------------
(* Imported loan rows (load_loans_from_excel): amount, tenure, payment, paid *)

ImportRow(customer_id, loan_amount, tenure, monthly_payment, emis_paid_on_time) ==
    [customer |-> customer_id, loan_amount |-> loan_amount, tenure |-> tenure,
     interest_rate |-> <<10, 1>>, monthly_payment |-> RInt(monthly_payment),
     emis_paid_on_time |-> emis_paid_on_time,
     start_date |-> <<2023, 1, 1>>, end_date |-> AddMonths(<<2023, 1, 1>>, tenure)]

\* a fully repaid small loan; a heavy instalment; a large unpaid loan with a
\* light instalment; a record with no scheduled instalments
HistoryRows ==
    <<ImportRow(1, 30000, 12, 250, 12), ImportRow(1, 60000, 10, 1000, 0),
      ImportRow(1, 60000, 10, 100, 0), ImportRow(1, 100, 0, 600, 0)>>

\* the Loan tables the import leaves for customer 1: at most n rows, in the
\* order of HistoryRows
Histories(n) ==
    LET idx == UNION {{s \in [1..k -> 1..Len(HistoryRows)] :
                          \A i \in 1..(k - 1) : s[i] <= s[i + 1]} : k \in 0..n}
    IN  {[i \in 1..Len(s) |-> HistoryRows[s[i]]] : s \in idx}

----------------------------------------------------------------------------
(* Actions *)

\* RegisterCustomer.post
RegisterCustomer(monthly_income, is_valid) ==
    /\ budget > 0
    /\ is_valid => Len(customers) < MaxCustomers
    /\ customers' = IF is_valid
                    THEN Append(customers, NewCustomer(monthly_income))
                    ELSE customers
    /\ resp' = [BlankResp EXCEPT !.op = "register",
                    !.status = IF is_valid THEN 201 ELSE 400,
                    !.customer_id = IF is_valid THEN Len(customers) + 1 ELSE 0]
    /\ budget' = budget - 1
    /\ UNCHANGED <<loans, today, procs>>

CheckEligibility(customer_id, loan_amount, interest_rate, tenure) ==
    /\ budget > 0
    /\ resp' = CheckEligibilityPost(customer_id, loan_amount, interest_rate,
                                    tenure)
    /\ budget' = budget - 1
    /\ UNCHANGED <<customers, loans, today, procs>>

CreateLoan(customer_id, loan_amount, interest_rate, tenure) ==
    LET out == CreateLoanPost(customer_id, loan_amount, interest_rate, tenure)
    IN  /\ budget > 0
        /\ loans' = IF out.created THEN Append(loans, out.loan) ELSE loans
        /\ resp' = out.resp
        /\ budget' = budget - 1
        /\ UNCHANGED <<customers, today, procs>>

CustomerIds == 1..(MaxCustomers + 1)

Init ==
    /\ customers \in {<<NewCustomer(i)>> : i \in Incomes}
    /\ loans \in Histories(MaxHistory)
    /\ today \in Dates
    /\ resp = BlankResp
    /\ budget = MaxRequests
    /\ procs = <<>>

Next ==
    \/ \E i \in Incomes, v \in BOOLEAN : RegisterCustomer(i, v)
    \/ \E c \in CustomerIds, a \in Principals, r \in Rates, t \in Tenures :
           CheckEligibility(c, a, r, t)
    \/ \E c \in CustomerIds, a \in Principals, r \in Rates, t \in Tenures :
           CreateLoan(c, a, r, t)

Spec == Init /\ [][Next]_vars

----------------------------------------------------------------------------
(* Scoring runs: credit_score applied to an imported history *)

ScoreCustomer(c) ==
    /\ budget > 0
    /\ resp' = [BlankResp EXCEPT !.op = "credit_score", !.customer_id = c,
                                 !.score = credit_score(c)]
    /\ budget' = budget - 1
    /\ UNCHANGED <<customers, loans, today, procs>>

InitScore ==
    /\ customers \in {<<NewCustomer(i)>> : i \in ScoreIncomes}
    /\ loans \in Histories(MaxScoreHistory)
    /\ today = <<2024, 1, 31>>
    /\ resp = BlankResp
    /\ budget = MaxRequests
    /\ procs = <<>>

NextScore == \E c \in 1..Len(customers) : ScoreCustomer(c)

SpecScore == InitScore /\ [][NextScore]_vars

----------------------------------------------------------------------------
(* Rate-ladder runs: the ladder of each handler applied to a score and rate *)

CorrectRateCheck ==
    /\ resp.op = "ladder_input"
    /\ LET out == CheckCorrectRate(resp.score, resp.interest_rate)
       IN  resp' = [resp EXCEPT !.op = "ladder_check",
                                !.approval = out.approval,
                                !.corrected_interest_rate =
                                    out.corrected_interest_rate]
    /\ UNCHANGED <<customers, loans, today, budget, procs>>

CorrectRateCreate ==
    /\ resp.op = "ladder_input"
    /\ LET out == CreateCorrectRate(resp.score, resp.interest_rate)
       IN  resp' = [resp EXCEPT !.op = "ladder_create",
                                !.approval = out.approval,
                                !.corrected_interest_rate =
                                    out.corrected_interest_rate,
                                !.message = out.message]
    /\ UNCHANGED <<customers, loans, today, budget, procs>>

InitRate ==
    /\ customers = <<>>
    /\ loans = <<>>
    /\ today = <<2024, 1, 31>>
    /\ resp \in {[BlankResp EXCEPT !.op = "ladder_input", !.score = s,
                                   !.interest_rate = RInt(r)] :
                     s \in Scores, r \in LadderRates}
    /\ budget = 0
    /\ procs = <<>>

NextRate == CorrectRateCheck \/ CorrectRateCreate

SpecRate == InitRate /\ [][NextRate]_vars

----------------------------------------------------------------------------
(* Claims about credit_score (under SpecScore) *)

Scored == resp.op = "credit_score"

ScoredHistory == LoansOf(resp.customer_id)

ScoredIncome == customers[resp.customer_id].monthly_income

\* twice the existing EMI burden of the scored customer, as <<num, den>>
ScoredBurden2 == RMul(<<2, 1>>, current_emis_of(ScoredHistory))

BurdenAboveHalf == ScoredBurden2[1] > ScoredIncome * ScoredBurden2[2]

BurdenEqualsHalf == ScoredBurden2[1] = ScoredIncome * ScoredBurden2[2]

ValidRecord(l) ==
    /\ 0 <= l.emis_paid_on_time /\ l.emis_paid_on_time <= l.tenure
    /\ l.loan_amount > 0
    /\ l.monthly_payment[1] > 0

ValidHistory(ls) == \A i \in 1..Len(ls) : ValidRecord(ls[i])

\* C3: credit_score returns an integer in [0, 100] for every profile and
\* every history of valid records (0 <= emis_paid_on_time <= tenure,
\* loan_amount > 0, monthly_payment > 0), and exactly 100 for an empty history.
C3_ScoreInRange ==
    (Scored /\ ValidHistory(ScoredHistory)) =>
        /\ resp.score \in 0..100
        /\ (ScoredHistory = <<>> => resp.score = 100)

\* a scored history whose weighted sum has a fractional part that is dropped
C3_Witness ==
    /\ Scored
    /\ ValidHistory(ScoredHistory)
    /\ resp.score \in 1..99
    /\ (50 * SumField(ScoredHistory, "emis_paid_on_time"))
           % SumField(ScoredHistory, "tenure") # 0

\* C4: a customer with a non-empty history whose existing EMI burden is
\* strictly greater than half the monthly income scores exactly 0, whatever
\* the loan count, volume, on-time ratio or total of scheduled instalments;
\* a burden exactly equal to half the income does not give the zero score.
C4_OverBurdenScoresZero ==
    (Scored /\ ScoredHistory # <<>>) =>
        /\ (BurdenAboveHalf => resp.score = 0)
        /\ (BurdenEqualsHalf => resp.score # 0)

\* an over-burdened customer whose records schedule no instalments at all
C4_Witness ==
    /\ Scored
    /\ ScoredHistory # <<>>
    /\ BurdenAboveHalf
    /\ SumField(ScoredHistory, "tenure") = 0
    /\ resp.score = 0

\* C10: credit_score never returns a value in 1..14, so the low-score branch
\* of both handlers' rate ladders is taken exactly when the history is
\* non-empty and the existing EMI burden is strictly above half the income.
C10_NoScoreBelowFifteen ==
    (Scored /\ ValidHistory(ScoredHistory)) =>
        /\ resp.score \notin 1..14
        /\ \A r \in LadderRates :
              /\ ~CheckCorrectRate(resp.score, RInt(r)).approval
                    <=> (ScoredHistory # <<>> /\ BurdenAboveHalf)
              /\ ~CreateCorrectRate(resp.score, RInt(r)).approval
                    <=> (ScoredHistory # <<>> /\ BurdenAboveHalf)

\* the smallest non-zero score: more than five loans, volume above the limit,
\* nothing paid on time
C10_Witness ==
    /\ Scored
    /\ ValidHistory(ScoredHistory)
    /\ resp.score = 15
    /\ Len(ScoredHistory) > 5

----------------------------------------------------------------------------
(* Claim about the rate ladder (under SpecRate) *)

Floor(rate, floor) == IF rate[1] < floor * rate[2] THEN <<floor, 1>> ELSE rate

\* C2: score > 50 keeps the requested rate; 30 <= score <= 50 gives
\* max(rate, 12); 10 <= score < 30 gives max(rate, 16); all three are
\* approvable; score < 10 is never approvable; the corrected rate is never
\* below the requested rate.  Both handlers' ladders are held to this.
C2_RateBands ==
    (resp.op \in {"ladder_check", "ladder_create"}) =>
        LET s == resp.score
            r == resp.interest_rate
            c == resp.corrected_interest_rate
        IN  /\ s > 50 => (resp.approval /\ c = r)
            /\ (30 <= s /\ s <= 50) => (resp.approval /\ c = Floor(r, 12))
            /\ (10 <= s /\ s < 30) => (resp.approval /\ c = Floor(r, 16))
            /\ s < 10 => ~resp.approval
            /\ c[1] * r[2] >= r[1] * c[2]

\* the lower edge of the 12% band raising a lower requested rate
C2_Witness ==
    /\ resp.op = "ladder_check"
    /\ resp.score = 30
    /\ resp.interest_rate = <<8, 1>>
    /\ resp.corrected_interest_rate = <<12, 1>>
    /\ resp.approval

----------------------------------------------------------------------------
(* Claims about the two handlers (under Spec) *)

Decided == resp.op \in {"check", "create"} /\ resp.status \in {200, 201}

Persisted == resp.op = "create" /\ resp.status = 201

Requester == resp.customer_id

\* principal > 0, rate >= 0, tenure > 0, income > 0
ValidatedRequest ==
    /\ resp.loan_amount > 0
    /\ resp.interest_rate[1] >= 0
    /\ resp.tenure > 0
    /\ customers[Requester].monthly_income > 0

\* the requester's loans as the request found them: a created loan is the
\* last row of the table
ExistingLoans ==
    IF Persisted
    THEN SubSeq(LoansOf(Requester), 1, Len(LoansOf(Requester)) - 1)
    ELSE LoansOf(Requester)

\* the instalment of the request at the corrected rate
NewInstallment ==
    calculate_emi(resp.loan_amount, resp.corrected_interest_rate, resp.tenure).val

\* twice (existing EMIs + new instalment), as <<num, den>>
Projected2 ==
    RMul(<<2, 1>>, RAdd(current_emis_of(ExistingLoans), NewInstallment))

ProjectedAboveHalf ==
    Projected2[1] > customers[Requester].monthly_income * Projected2[2]

\* C1: with validated inputs a decision is APPROVED only if the score is at
\* least 10 and existing EMIs + new instalment <= half the monthly income; a
\* sum strictly above half the income is REJECTED; every REJECTED decision
\* reports an instalment of 0.
C1_AffordabilityGate ==
    (Decided /\ ValidatedRequest) =>
        /\ resp.approval => (resp.score >= 10 /\ ~ProjectedAboveHalf)
        /\ ProjectedAboveHalf => ~resp.approval
        /\ ~resp.approval => resp.monthly_installment = <<0, 1>>

\* an approval on top of existing loans that lands exactly on the ceiling
C1_Witness ==
    /\ Decided
    /\ ValidatedRequest
    /\ resp.approval
    /\ ExistingLoans # <<>>
    /\ Projected2[1] = customers[Requester].monthly_income * Projected2[2]

\* the reply of the other handler to the request of resp, on the same tables
OtherReply ==
    IF resp.op = "check"
    THEN CreateLoanPost(resp.customer_id, resp.loan_amount,
                        resp.interest_rate[1], resp.tenure).resp
    ELSE CheckEligibilityPost(resp.customer_id, resp.loan_amount,
                              resp.interest_rate[1], resp.tenure)

\* C5: on the same customer, the same persisted history and the same request,
\* check-eligibility and create-loan give the same approval flag and the same
\* reported instalment (the rounded instalment at the corrected rate when
\* approved, 0 when rejected); they also fail alike.  The tables are the ones
\* the reply of resp was computed on whenever that request stored nothing.
C5_SameDecision ==
    (resp.op \in {"check", "create"} /\ ~Persisted) =>
        /\ (OtherReply.status \in {200, 201}) <=> (resp.status \in {200, 201})
        /\ (OtherReply.status = 404) <=> (resp.status = 404)
        /\ (OtherReply.status = 500) <=> (resp.status = 500)
        /\ OtherReply.approval = resp.approval
        /\ OtherReply.monthly_installment = resp.monthly_installment
        /\ resp.approval =>
              resp.monthly_installment = Round2(NewInstallment)

\* an approved eligibility check whose rate was raised and whose instalment
\* needed rounding
C5_Witness ==
    /\ resp.op = "check"
    /\ resp.approval
    /\ resp.corrected_interest_rate # resp.interest_rate
    /\ NewInstallment # resp.monthly_installment
    /\ OtherReply.approval

\* C7: a request with tenure <= 0 ends in an InvalidInput failure: no
\* division by zero, no APPROVED decision, nothing stored.
C7_InvalidTenureRejected ==
    (resp.op \in {"check", "create"} /\ resp.status # 404 /\ resp.tenure <= 0)
        => /\ resp.status = 400
           /\ resp.message # "ZeroDivisionError"
           /\ ~resp.approval
           /\ ~Persisted

\* the step of a handler, told by the reply it leaves
C6_Step ==
    LET approved == resp'.op = "create" /\ resp'.approval
        l == loans'[Len(loans')]
        months(d) == d[1] * 12 + d[2]
    IN  /\ resp'.op \in {"check", "create"} => customers' = customers
        /\ (resp'.op \in {"check", "create"} /\ ~approved) => loans' = loans
        /\ approved =>
              /\ Len(loans') = Len(loans) + 1
              /\ SubSeq(loans', 1, Len(loans)) = loans
              /\ resp'.loan_id = Len(loans')
              /\ l.customer = resp'.customer_id
              /\ l.loan_amount = resp'.loan_amount
              /\ l.tenure = resp'.tenure
              /\ l.interest_rate = resp'.corrected_interest_rate
              /\ l.monthly_payment =
                     calculate_emi(resp'.loan_amount,
                                   resp'.corrected_interest_rate,
                                   resp'.tenure).val
              /\ l.emis_paid_on_time = 0
              /\ l.start_date = today
              /\ months(l.end_date) = months(l.start_date) + l.tenure
              /\ l.end_date[3] =
                     IF l.start_date[3] > DaysInMonth(l.end_date[1], l.end_date[2])
                     THEN DaysInMonth(l.end_date[1], l.end_date[2])
                     ELSE l.start_date[3]

\* C6: create-loan adds exactly one Loan row when and only when it approves
\* (customer = requester, requested principal and tenure, the corrected rate,
\* the instalment at the corrected rate, no EMI paid, start = today, end =
\* start + tenure months); a rejected or failed create-loan and every
\* check-eligibility leave the Customer and Loan tables as they were.
C6_CreatePersistsIffApproved == [][C6_Step]_vars

\* a stored loan whose rate was raised and whose instalment is not a whole
\* number of cents
C6_Witness ==
    /\ Persisted
    /\ resp.corrected_interest_rate # resp.interest_rate
    /\ loans[Len(loans)].interest_rate = resp.corrected_interest_rate
    /\ loans[Len(loans)].monthly_payment # resp.monthly_installment

----------------------------------------------------------------------------
(* Sequential runs from tables within the ceiling, validated inputs only *)

\* twice the EMI burden of customer c, as <<num, den>>
Burden2(c) == RMul(<<2, 1>>, current_emis_of(LoansOf(c)))

CeilingHolds ==
    \A c \in 1..Len(customers) :
        Burden2(c)[1] <= customers[c].monthly_income * Burden2(c)[2]

InitCeiling ==
    /\ customers \in {<<>>} \cup {<<NewCustomer(i)>> : i \in Incomes}
    /\ loans \in {h \in Histories(MaxHistory) :
                     /\ customers = <<>> => h = <<>>
                     /\ customers # <<>> =>
                          ~ExceedsHalfIncome(current_emis_of(h),
                                             customers[1].monthly_income)}
    /\ today = <<2024, 1, 31>>
    /\ resp = BlankResp
    /\ budget = MaxSeqRequests
    /\ procs = <<>>

NextCeiling ==
    \/ \E i \in Incomes, v \in BOOLEAN : RegisterCustomer(i, v)
    \/ \E c \in CustomerIds, a \in Principals, r \in Rates, t \in ValidTenures :
           CheckEligibility(c, a, r, t)
    \/ \E c \in CustomerIds, a \in Principals, r \in Rates, t \in ValidTenures :
           CreateLoan(c, a, r, t)

SpecCeiling == InitCeiling /\ [][NextCeiling]_vars

\* C8: from tables in which every customer's monthly payments sum to at most
\* half the monthly income, any sequence of register, check-eligibility and
\* create-loan requests with validated inputs keeps it so.
C8_CeilingPreserved == CeilingHolds

\* a customer holding two loans created in this run, the second approved on
\* top of the first
C8_Witness ==
    /\ Persisted
    /\ Len(LoansOf(Requester)) >= 2
    /\ LoansOf(Requester)[Len(LoansOf(Requester)) - 1].start_date = today
    /\ ValidatedRequest

----------------------------------------------------------------------------
(* Interleaved create-loan requests: CreateLoan.post runs inside no          *)
(* transaction, so each of its three queries is a step of its own            *)

IdleProc ==
    [pc |-> "idle", customer_id |-> 0, loan_amount |-> 0, interest_rate |-> <<0, 1>>,
     tenure |-> 0, score |-> -1, corrected_interest_rate |-> <<0, 1>>,
     monthly_installment |-> <<0, 1>>, gated |-> FALSE, approved |-> FALSE,
     scored_on |-> <<>>, gated_on |-> <<>>, stored_on |-> <<>>]

\* the request is parsed and the customer looked up
Receive(p, customer_id, loan_amount, interest_rate, tenure) ==
    /\ procs[p].pc = "idle"
    /\ procs' = [procs EXCEPT ![p] =
                    [@ EXCEPT !.pc = IF CustomerExists(customer_id)
                                     THEN "scoring" ELSE "done",
                              !.customer_id = customer_id,
                              !.loan_amount = loan_amount,
                              !.interest_rate = RInt(interest_rate),
                              !.tenure = tenure]]
    /\ resp' = IF CustomerExists(customer_id) THEN resp
               ELSE NotFound("create", customer_id)
    /\ UNCHANGED <<customers, loans, today, budget>>

\* credit_score reads the loans (one query), then the ladder and the EMI
ScoreStep(p) ==
    LET me == procs[p]
        ls == LoansOf(me.customer_id)
        score == credit_score_on(customers[me.customer_id], ls)
        tier == CreateCorrectRate(score, me.interest_rate)
        emi == IF tier.approval
               THEN calculate_emi(me.loan_amount, tier.corrected_interest_rate,
                                  me.tenure)
               ELSE Value(<<0, 1>>)
        reply == [Request("create", me.customer_id, me.loan_amount,
                          me.interest_rate[1], me.tenure)
                     EXCEPT !.score = score,
                            !.corrected_interest_rate =
                                tier.corrected_interest_rate]
    IN  /\ me.pc = "scoring"
        /\ procs' = [procs EXCEPT ![p] =
                        [@ EXCEPT !.pc = IF tier.approval /\ ~emi.err
                                         THEN "gating" ELSE "done",
                                  !.score = score,
                                  !.corrected_interest_rate =
                                      tier.corrected_interest_rate,
                                  !.monthly_installment = emi.val,
                                  !.scored_on = ls]]
        /\ resp' = IF emi.err
                   THEN [reply EXCEPT !.status = 500,
                                      !.message = "ZeroDivisionError"]
                   ELSE IF ~tier.approval
                   THEN [reply EXCEPT !.status = 200, !.message = tier.message]
                   ELSE resp
        /\ UNCHANGED <<customers, loans, today, budget>>

\* the loans are read again for the EMI threshold
GateStep(p) ==
    LET me == procs[p]
        ls == LoansOf(me.customer_id)
        over == CreateOverBurden(customers[me.customer_id], ls,
                                 me.monthly_installment)
    IN  /\ me.pc = "gating"
        /\ procs' = [procs EXCEPT ![p] =
                        [@ EXCEPT !.pc = IF over THEN "done" ELSE "storing",
                                  !.gated = TRUE, !.gated_on = ls]]
        /\ resp' = IF over
                   THEN [Request("create", me.customer_id, me.loan_amount,
                                 me.interest_rate[1], me.tenure)
                            EXCEPT !.status = 200, !.score = me.score,
                                   !.corrected_interest_rate =
                                       me.corrected_interest_rate,
                                   !.message =
                           "Loan rejected: EMIs exceed 50% of monthly income"]
                   ELSE resp
        /\ UNCHANGED <<customers, loans, today, budget>>

\* the loan is inserted and the approval returned
StoreStep(p) ==
    LET me == procs[p]
    IN  /\ me.pc = "storing"
        /\ loans' = Append(loans,
                           NewLoan(me.customer_id, me.loan_amount, me.tenure,
                                   me.corrected_interest_rate,
                                   me.monthly_installment, today))
        /\ procs' = [procs EXCEPT ![p] =
                        [@ EXCEPT !.pc = "done", !.approved = TRUE,
                                  !.stored_on = LoansOf(me.customer_id)]]
        /\ resp' = [Request("create", me.customer_id, me.loan_amount,
                            me.interest_rate[1], me.tenure)
                       EXCEPT !.status = 201, !.score = me.score,
                              !.approval = TRUE,
                              !.corrected_interest_rate =
                                  me.corrected_interest_rate,
                              !.monthly_installment =
                                  Round2(me.monthly_installment),
                              !.message = "Loan approved",
                              !.loan_id = Len(loans) + 1]
        /\ UNCHANGED <<customers, today, budget>>

InitConc ==
    /\ customers \in {<<NewCustomer(i)>> : i \in Incomes}
    /\ loans \in {h \in Histories(MaxHistory) :
                     ~ExceedsHalfIncome(current_emis_of(h),
                                        customers[1].monthly_income)}
    /\ today = <<2024, 1, 31>>
    /\ resp = BlankResp
    /\ budget = 0
    /\ procs = [p \in 1..MaxProcs |-> IdleProc]

NextConc ==
    \/ \E p \in 1..MaxProcs, c \in CustomerIds, a \in Principals, r \in Rates,
          t \in ValidTenures : Receive(p, c, a, r, t)
    \/ \E p \in 1..MaxProcs : ScoreStep(p)
    \/ \E p \in 1..MaxProcs : GateStep(p)
    \/ \E p \in 1..MaxProcs : StoreStep(p)

SpecConc == InitConc /\ [][NextConc]_vars

\* C9: with create-loan requests of one customer interleaved, every decision
\* is computed from one history snapshot that stays unchanged until the
\* decision is complete (the rows read for the score, the rows read for the
\* threshold and the rows present at the insert are the same), and the
\* ceiling holds in every reachable state.
C9_SnapshotAndCeiling ==
    /\ CeilingHolds
    /\ \A p \in 1..MaxProcs :
          /\ procs[p].gated => procs[p].gated_on = procs[p].scored_on
          /\ procs[p].approved => procs[p].stored_on = procs[p].gated_on

====
